---- MODULE Spec2Model ----
(***************************************************************************)
(* Runtime type model of GoVM (package heap, chapter6-obj): loaded         *)
(* classes, their superclass / interface links and method tables, and the  *)
(* resolution of a MethodRef of a constant pool into a Method, with its    *)
(* cache.  class.go and cp_methodref.go are modelled statement by          *)
(* statement; the class loader, the symbolic class reference, the member   *)
(* access check and the slot storage are collaborators that are modelled   *)
(* from their documented contract.                                         *)
(***************************************************************************)
EXTENDS Integers, Sequences, FiniteSets, TLC

\* ------------------------------------------------------------------ bounds
\* Longest interface list of a class.
MaxIfaces == 2
\* Longest method table of a class.
MaxMethods == 2
\* Number of MethodRef entries in the constant pools.
NumRefs == 2
\* Number of callers that run ResolvedMethod concurrently.
NumThreads == 2
\* Longest field table of a class.
MaxFields == 2
\* Number of heap objects a static reference variable can point to.
NumObjects == 1

\* ------------------------------------------------------- program constants
ACC_PUBLIC == 1
ACC_STATIC == 8
ACC_INTERFACE == 512

\* The nil pointer (*Class, *Object).
Nil == 0

\* The names the classes of the program are loaded under, as character
\* sequences: "a/M", "a/B" and "a/b/I" (packages a, a and a/b) ...
ClassNames ==
  << <<"a", "/", "M">>, <<"a", "/", "B">>, <<"a", "/", "b", "/", "I">> >>

\* ... or "a/M", "B" and "I" (package a and the unnamed package).
UnnamedPackageNames ==
  << <<"a", "/", "M">>, <<"B">>, <<"I">> >>

NameTables == {ClassNames, UnnamedPackageNames}

\* The loaded classes are the identities 1 .. NumClasses.
NumClasses == Len(ClassNames)

Classes == 1 .. NumClasses
Refs == 1 .. NumRefs
Threads == 1 .. NumThreads
Objects == 1 .. NumObjects

\* ------------------------------------------------------------------- state
VARIABLES
  name,         \* Class.name: a string, as the sequence of its characters
  accessFlags,  \* Class.accessFlags
  superClass,   \* Class.superClass (Nil for none)
  interfaces,   \* Class.interfaces: a sequence of classes
  methods,      \* Class.methods: a sequence of methods
  fields,       \* Class.fields: a sequence of fields
  staticVars,   \* Class.staticVars: a sequence of references, one per slot
  method,       \* MethodRef.method: the cached Method of each reference
  ret,          \* what the last completed call returned or signalled
  thread,       \* each concurrent caller of ResolvedMethod: its position
  walk          \* a loop over superClass links that is being executed

classVars == <<name, accessFlags, superClass, interfaces, methods, fields>>
vars == <<name, accessFlags, superClass, interfaces, methods, fields,
          staticVars, method, ret, thread, walk>>

\* ----------------------------------------------------------------- helpers
Max(S) == CHOOSE x \in S : \A y \in S : y <= x
Min(S) == CHOOSE x \in S : \A y \in S : x <= y

\* Sequences over S of length at most n without a repeated element.
SeqsNoRep(S, n) ==
  UNION { { s \in [1 .. k -> S] : \A i, j \in 1 .. k : i # j => s[i] # s[j] }
          : k \in 0 .. n }

\* flags & mask # 0, for a mask that is a single bit.
HasFlag(flags, mask) == (flags \div mask) % 2 = 1

\* ----------------------------------------------------------------- classes
IsInterface(c) == HasFlag(accessFlags[c], ACC_INTERFACE)

\* strings.LastIndex(s, "/"): the 0-based index of the last "/", or -1.
LastIndex(s) ==
  LET I == { i \in 1 .. Len(s) : s[i] = "/" }
  IN  IF I = {} THEN -1 ELSE Max(I) - 1

\* A package name cut at the first "/" instead of the last.
GetPackageName_FirstSlash(c) ==
  LET I == { i \in 1 .. Len(name[c]) : name[c][i] = "/" }
  IN  IF I = {} THEN << >> ELSE SubSeq(name[c], 1, Min(I) - 1)

GetPackageName(c) ==
  LET i == LastIndex(name[c])
  IN  IF i >= 0 THEN SubSeq(name[c], 1, i) ELSE << >>

\* for c := self.superClass; c != nil; c = c.superClass { if c == other ... }
RECURSIVE SuperWalk(_, _)
SuperWalk(c, other) ==
  IF c = Nil THEN FALSE
  ELSE IF c = other THEN TRUE
  ELSE SuperWalk(superClass[c], other)

\* The class reached from c by following k superClass links (Nil past the root).
RECURSIVE SuperPow(_, _)
SuperPow(c, k) ==
  IF c = Nil \/ k = 0 THEN c ELSE SuperPow(superClass[c], k - 1)

IsSubClassOf_ByName(self, other) ==
  \E k \in 1 .. NumClasses :
    SuperPow(self, k) # Nil /\ name[SuperPow(self, k)] = name[other]

IsSubClassOf(self, other) == SuperWalk(superClass[self], other)

IsSuperClassOf(self, other) == IsSubClassOf(other, self)

\* ----------------------------------------------------------------- methods
\* The methods a class file can declare: name, descriptor, access flags.
MethodKinds ==
  << [name |-> "sayHello", descriptor |-> "()V", accessFlags |-> ACC_PUBLIC],
     [name |-> "sayHello", descriptor |-> "()V", accessFlags |-> 0],
     [name |-> "sayHello", descriptor |-> "(I)V", accessFlags |-> ACC_PUBLIC] >>

\* A *Method is identified by the class that declares it and its kind.
NoMethod == [class |-> Nil, kind |-> 0]
MethodName(m) == MethodKinds[m.kind].name
MethodDescriptor(m) == MethodKinds[m.kind].descriptor
MethodIsPublic(m) == HasFlag(MethodKinds[m.kind].accessFlags, ACC_PUBLIC)

MemberNames == {"sayHello", "privateHelper"}
Descriptors == {"()V", "(I)V"}

\* The method tables class c can be constructed with, from the given kinds.
MethodTables(c, kinds, n) ==
  { [i \in 1 .. Len(s) |-> [class |-> c, kind |-> s[i]]] : s \in SeqsNoRep(kinds, n) }

\* for _, method := range table { if method.name == name && ... { return method } }
FirstMatch(table, mname, descriptor) ==
  LET I == { i \in 1 .. Len(table) :
               /\ MethodName(table[i]) = mname
               /\ MethodDescriptor(table[i]) = descriptor }
  IN  IF I = {} THEN NoMethod ELSE table[Min(I)]

RECURSIVE LookupMethodInClass(_, _, _)
LookupMethodInClass(class, mname, descriptor) ==
  IF class = Nil THEN NoMethod
  ELSE LET m == FirstMatch(methods[class], mname, descriptor)
       IN  IF m # NoMethod THEN m
           ELSE LookupMethodInClass(superClass[class], mname, descriptor)

\* A lookup that descends into the super-interfaces of an interface before
\* it looks at the interface's own methods.
RECURSIVE lookupMethodInInterface_SuperFirst(_, _, _)
lookupMethodInInterface_SuperFirst(ifaces, mname, descriptor) ==
  IF ifaces = << >> THEN NoMethod
  ELSE LET iface == Head(ifaces)
           up == lookupMethodInInterface_SuperFirst(interfaces[iface], mname, descriptor)
           m == FirstMatch(methods[iface], mname, descriptor)
       IN  IF up # NoMethod THEN up
           ELSE IF m # NoMethod THEN m
           ELSE lookupMethodInInterface_SuperFirst(Tail(ifaces), mname, descriptor)

RECURSIVE lookupMethodInInterface(_, _, _)
lookupMethodInInterface(ifaces, mname, descriptor) ==
  IF ifaces = << >> THEN NoMethod
  ELSE LET iface == Head(ifaces)
           m == FirstMatch(methods[iface], mname, descriptor)
       IN  IF m # NoMethod THEN m
           ELSE LET up == lookupMethodInInterface(interfaces[iface], mname, descriptor)
                IN  IF up # NoMethod THEN up
                    ELSE lookupMethodInInterface(Tail(ifaces), mname, descriptor)

\* A lookup that searches the interfaces before the superclass chain.
lookupMethod_InterfacesFirst(class, mname, descriptor) ==
  LET m == lookupMethodInInterface(interfaces[class], mname, descriptor)
  IN  IF m # NoMethod THEN m ELSE LookupMethodInClass(class, mname, descriptor)

lookupMethod(class, mname, descriptor) ==
  LET m == LookupMethodInClass(class, mname, descriptor)
  IN  IF m # NoMethod THEN m
      ELSE lookupMethodInInterface(interfaces[class], mname, descriptor)

\* ------------------------------------------------- the loaded class graphs
\* The loader links a class to classes loaded before it returns, so a link
\* never closes a cycle: links lead to higher identities.
SuperChoices(c) == {Nil} \cup ((c + 1) .. NumClasses)
IfaceLists(c, n) == SeqsNoRep((c + 1) .. NumClasses, n)

NoLinks ==
  /\ superClass = [c \in Classes |-> Nil]
  /\ interfaces = [c \in Classes |-> << >>]

NoMembers ==
  /\ methods = [c \in Classes |-> << >>]
  /\ fields = [c \in Classes |-> << >>]
  /\ staticVars = [c \in Classes |-> << >>]

NoCalls ==
  /\ method = [r \in Refs |-> NoMethod]
  /\ ret = [op |-> "none"]
  /\ thread = [t \in Threads |-> [pc |-> "idle"]]
  /\ walk = [pc |-> "idle"]

\* ---------------------------------------------- hierarchy tests (pure calls)
CallIsSubClassOf(self, other) ==
  /\ ret' = [op |-> "IsSubClassOf", a |-> self, b |-> other,
             val |-> IsSubClassOf(self, other)]
  /\ UNCHANGED <<classVars, staticVars, method, thread, walk>>

CallIsSuperClassOf(self, other) ==
  /\ ret' = [op |-> "IsSuperClassOf", a |-> self, b |-> other,
             val |-> IsSuperClassOf(self, other)]
  /\ UNCHANGED <<classVars, staticVars, method, thread, walk>>

InitHier ==
  /\ name \in [Classes -> { ClassNames[i] : i \in Classes }]
  /\ accessFlags = [c \in Classes |-> ACC_PUBLIC]
  /\ superClass \in { f \in [Classes -> Classes \cup {Nil}] :
                        \A c \in Classes : f[c] \in SuperChoices(c) }
  /\ interfaces = [c \in Classes |-> << >>]
  /\ NoMembers
  /\ NoCalls

NextHier ==
  \/ \E c, d \in Classes : CallIsSubClassOf(c, d)
  \/ \E c, d \in Classes : CallIsSuperClassOf(c, d)

SpecHier == InitHier /\ [][NextHier]_vars

StrictAncestors(c) ==
  { SuperPow(c, k) : k \in 1 .. NumClasses } \ {Nil}

\* C2: C.IsSubClassOf(D) is true iff D is reached, by identity, by following
\* one or more superClass links from C; C.IsSubClassOf(C) is false; and
\* D.IsSuperClassOf(C) equals C.IsSubClassOf(D).
SubClassIsStrictAncestry ==
  /\ ret.op = "IsSubClassOf" =>
       /\ ret.val = (ret.b \in StrictAncestors(ret.a))
       /\ (ret.a = ret.b => ret.val = FALSE)
  /\ ret.op = "IsSuperClassOf" =>
       /\ ret.val = (ret.a \in StrictAncestors(ret.b))
       /\ ret.val = IsSubClassOf(ret.b, ret.a)

\* Witness of C2: a class asked about an ancestor two links up that carries
\* the same name as a class that is not its ancestor.
SubClassWitness ==
  /\ ret.op = "IsSubClassOf" /\ ret.val = TRUE
  /\ superClass[ret.a] # Nil /\ superClass[ret.a] # ret.b
  /\ \E e \in Classes : e # ret.b /\ name[e] = name[ret.b]

\* ------------------------------------------------------ method references
\* Reference r sits in the constant pool of class RefD(r) and names the
\* method sayHello()V of the class loaded after it.
RefD(r) == ((r - 1) % NumClasses) + 1
RefClassName(r) == name[(r % NumClasses) + 1]
RefName(r) == "sayHello"
RefDescriptor(r) == "()V"

\* ClassLoader.LoadClass: the one loaded class of that name.
LoadClass(className) == CHOOSE c \in Classes : name[c] = className

\* SymRef.ResolvedClass: the class the reference names, from d's loader.
ResolvedClass(r) == LoadClass(RefClassName(r))

\* ClassMember.isAccessibleTo: public, or declared in d's package.
isAccessibleTo(m, d) ==
  MethodIsPublic(m) \/ GetPackageName(m.class) = GetPackageName(d)

\* A resolution that caches the method it found before the access check.
resolveMethodRef_CacheFirst(r) ==
  LET d == RefD(r)
      c == ResolvedClass(r)
      m == lookupMethod(c, RefName(r), RefDescriptor(r))
  IN  IF IsInterface(c)
      THEN [err |-> "IncompatibleClassChangeError", method |-> method[r]]
      ELSE IF m = NoMethod
      THEN [err |-> "NoSuchMethodError", method |-> method[r]]
      ELSE IF ~isAccessibleTo(m, d)
      THEN [err |-> "IllegalAccessError", method |-> m]
      ELSE [err |-> "", method |-> m]

\* A resolution that looks the member up before it tests for an interface.
resolveMethodRef_LookupFirst(r) ==
  LET d == RefD(r)
      c == ResolvedClass(r)
      m == lookupMethod(c, RefName(r), RefDescriptor(r))
  IN  IF m = NoMethod
      THEN [err |-> "NoSuchMethodError", method |-> method[r]]
      ELSE IF IsInterface(c)
      THEN [err |-> "IncompatibleClassChangeError", method |-> method[r]]
      ELSE IF ~isAccessibleTo(m, d)
      THEN [err |-> "IllegalAccessError", method |-> method[r]]
      ELSE [err |-> "", method |-> m]

\* resolveMethodRef: the panic it ends with ("" for none) and the value of
\* self.method when it ends.
resolveMethodRef(r) ==
  LET d == RefD(r)
      c == ResolvedClass(r)
      m == lookupMethod(c, RefName(r), RefDescriptor(r))
  IN  IF IsInterface(c)
      THEN [err |-> "IncompatibleClassChangeError", method |-> method[r]]
      ELSE IF m = NoMethod
      THEN [err |-> "NoSuchMethodError", method |-> method[r]]
      ELSE IF ~isAccessibleTo(m, d)
      THEN [err |-> "IllegalAccessError", method |-> method[r]]
      ELSE [err |-> "", method |-> m]

\* A call that resolves again although a method is cached.
ResolvedMethod_NoCache(r) ==
  LET o == resolveMethodRef(r)
  IN  /\ method' = [method EXCEPT ![r] = IF o.err = "" THEN o.method ELSE @]
      /\ ret' = [op |-> "ResolvedMethod", a |-> r, cached |-> method[r] # NoMethod,
                 err |-> o.err, val |-> IF o.err = "" THEN o.method ELSE NoMethod]
      /\ UNCHANGED <<classVars, staticVars, thread, walk>>

\* MethodRef.ResolvedMethod, called by one caller at a time.
ResolvedMethod(r) ==
  /\ IF method[r] = NoMethod
     THEN LET o == resolveMethodRef(r)
          IN  /\ method' = [method EXCEPT ![r] = o.method]
              /\ ret' = [op |-> "ResolvedMethod", a |-> r, cached |-> FALSE,
                         err |-> o.err,
                         val |-> IF o.err = "" THEN o.method ELSE NoMethod]
     ELSE /\ method' = method
          /\ ret' = [op |-> "ResolvedMethod", a |-> r, cached |-> TRUE,
                     err |-> "", val |-> method[r]]
  /\ UNCHANGED <<classVars, staticVars, thread, walk>>

\* ------------------------------------------------------------- the loader
\* Linking and re-linking of a loaded class.  A link never closes a cycle.
SetSuperClass(c, s) ==
  /\ s \in SuperChoices(c) /\ s # superClass[c]
  /\ superClass' = [superClass EXCEPT ![c] = s]
  /\ ret' = [op |-> "none"]
  /\ UNCHANGED <<name, accessFlags, interfaces, methods, fields,
                 staticVars, method, thread, walk>>

SetInterfaces(c, l) ==
  /\ l \in IfaceLists(c, MaxIfaces) /\ l # interfaces[c]
  /\ interfaces' = [interfaces EXCEPT ![c] = l]
  /\ ret' = [op |-> "none"]
  /\ UNCHANGED <<name, accessFlags, superClass, methods, fields,
                 staticVars, method, thread, walk>>

SetMethods(c, t) ==
  /\ t # methods[c]
  /\ methods' = [methods EXCEPT ![c] = t]
  /\ ret' = [op |-> "none"]
  /\ UNCHANGED <<name, accessFlags, superClass, interfaces, fields,
                 staticVars, method, thread, walk>>

\* ------------------------------------------- resolution, one caller at a time
\* sayHello()V is declared public or package-private, once per class at most.
ResolveKinds == {1, 2}
ClassFlagChoices == {ACC_PUBLIC, ACC_PUBLIC + ACC_INTERFACE}

Init ==
  /\ name = ClassNames
  /\ accessFlags \in [Classes -> ClassFlagChoices]
  /\ NoLinks
  /\ NoMembers
  /\ NoCalls

Next ==
  \/ \E r \in Refs : ResolvedMethod(r)
  \/ \E c \in Classes, s \in Classes \cup {Nil} : SetSuperClass(c, s)
  \/ \E c \in Classes, l \in SeqsNoRep(Classes, MaxIfaces) : SetInterfaces(c, l)
  \/ \E c \in Classes : \E t \in MethodTables(c, ResolveKinds, 1) : SetMethods(c, t)

Spec == Init /\ [][Next]_vars

\* C1: once ResolvedMethod on r has returned a Method, every later call on r
\* returns that same Method from the cache, without resolving again, whatever
\* was done to the class graph in between; the cached method never changes.
CacheStable ==
  [][\A r \in Refs :
       method[r] # NoMethod =>
         /\ method'[r] = method[r]
         /\ (ret'.op = "ResolvedMethod" /\ ret'.a = r =>
               ret'.err = "" /\ ret'.cached /\ ret'.val = method[r])]_vars

\* Witness of C1: a call answered from the cache in a class graph where a
\* fresh resolution would fail or find another method.
CacheStableWitness ==
  /\ ret.op = "ResolvedMethod" /\ ret.cached /\ ret.val # NoMethod
  /\ LET c == ResolvedClass(ret.a)
         fresh == lookupMethod(c, RefName(ret.a), RefDescriptor(ret.a))
     IN  fresh # ret.val

\* C3: a plain MethodRef whose target class is an interface always fails with
\* IncompatibleClassChangeError and stays unresolved, whether or not the
\* method exists on the interface or its super-interfaces and is accessible.
InterfaceTargetFails ==
  \A r \in Refs :
    IsInterface(ResolvedClass(r)) =>
      /\ method[r] = NoMethod
      /\ (ret.op = "ResolvedMethod" /\ ret.a = r =>
            ret.err = "IncompatibleClassChangeError" /\ ret.val = NoMethod)

\* Witness of C3: the failure on an interface that inherits a matching method,
\* accessible to the accessing class, from a super-interface.
InterfaceTargetWitness ==
  /\ ret.op = "ResolvedMethod" /\ ret.err = "IncompatibleClassChangeError"
  /\ LET c == ResolvedClass(ret.a)
         m == lookupMethod(c, RefName(ret.a), RefDescriptor(ret.a))
     IN  m # NoMethod /\ m.class # c /\ isAccessibleTo(m, RefD(ret.a))

\* ------------------------------------------ resolution across packages
\* The same calls and loader updates among classes, none of them an
\* interface, whose names lie in nested packages or in the unnamed package.
InitAccess ==
  /\ name \in NameTables
  /\ accessFlags = [c \in Classes |-> ACC_PUBLIC]
  /\ NoLinks
  /\ NoMembers
  /\ NoCalls

SpecAccess == InitAccess /\ [][Next]_vars

\* p is the package of the class name n: n up to its last "/", or empty.
IsPackageOf(p, n) ==
  \/ /\ \A i \in 1 .. Len(n) : n[i] # "/"
     /\ p = << >>
  \/ \E i \in 1 .. Len(n) :
       /\ n[i] = "/"
       /\ \A j \in (i + 1) .. Len(n) : n[j] # "/"
       /\ p = SubSeq(n, 1, i - 1)

SamePackage(a, b) ==
  \E k \in 0 .. Len(name[a]) :
    IsPackageOf(SubSeq(name[a], 1, k), name[a]) /\ IsPackageOf(SubSeq(name[a], 1, k), name[b])

\* C4: a found public method resolves from any package; a found non-public
\* method resolves from its own package and fails with IllegalAccessError from
\* another; every cached method passed that check against the pool's class.
PackageAccess ==
  /\ \A r \in Refs :
       method[r] # NoMethod =>
         MethodIsPublic(method[r]) \/ SamePackage(method[r].class, RefD(r))
  /\ (ret.op = "ResolvedMethod" /\ ~ret.cached /\ ~IsInterface(ResolvedClass(ret.a))) =>
       LET m == lookupMethod(ResolvedClass(ret.a), RefName(ret.a), RefDescriptor(ret.a))
       IN  m # NoMethod =>
             IF MethodIsPublic(m) \/ SamePackage(m.class, RefD(ret.a))
             THEN ret.err = "" /\ ret.val = m /\ method[ret.a] = m
             ELSE ret.err = "IllegalAccessError" /\ method[ret.a] = NoMethod

\* Witness of C4: a package-private method found in another package, refused.
PackageAccessWitness ==
  /\ ret.op = "ResolvedMethod" /\ ret.err = "IllegalAccessError"
  /\ LET m == lookupMethod(ResolvedClass(ret.a), RefName(ret.a), RefDescriptor(ret.a))
     IN  ~MethodIsPublic(m) /\ ~SamePackage(m.class, RefD(ret.a))

\* C8: a call of ResolvedMethod that fails leaves its reference unresolved
\* and changes the cached method of no reference.
FailureKeepsCaches ==
  [][(ret'.op = "ResolvedMethod" /\ ret'.err # "") =>
       (method' = method /\ method'[ret'.a] = NoMethod)]_vars

\* Witness of C8: a failed call while another reference holds its method.
FailureKeepsCachesWitness ==
  /\ ret.op = "ResolvedMethod" /\ ret.err # "" /\ method[ret.a] = NoMethod
  /\ \E r \in Refs : r # ret.a /\ method[r] # NoMethod

\* ------------------------------------------------ method lookup (pure calls)
\* A class file declares at most one method of a name and descriptor.
LookupKinds == {1, 3}

CallLookupMethod(class, mname, descriptor) ==
  /\ ret' = [op |-> "lookupMethod", a |-> class, n |-> mname, d |-> descriptor,
             val |-> lookupMethod(class, mname, descriptor)]
  /\ UNCHANGED <<classVars, staticVars, method, thread, walk>>

InitLookup ==
  /\ name = ClassNames
  /\ accessFlags = [c \in Classes |-> ACC_PUBLIC]
  /\ superClass \in { f \in [Classes -> Classes \cup {Nil}] :
                        \A c \in Classes : f[c] \in SuperChoices(c) }
  /\ interfaces \in { f \in [Classes -> SeqsNoRep(Classes, MaxIfaces)] :
                        \A c \in Classes : f[c] \in IfaceLists(c, MaxIfaces) }
  /\ methods \in { f \in [Classes -> UNION { MethodTables(c, LookupKinds, MaxMethods)
                                             : c \in Classes }] :
                     \A c \in Classes : f[c] \in MethodTables(c, LookupKinds, MaxMethods) }
  /\ fields = [c \in Classes |-> << >>]
  /\ staticVars = [c \in Classes |-> << >>]
  /\ NoCalls

NextLookup ==
  \E c \in Classes, n \in MemberNames, d \in Descriptors : CallLookupMethod(c, n, d)

SpecLookup == InitLookup /\ [][NextLookup]_vars

\* The positions in c's method table of the methods called mname(descriptor).
Declares(c, mname, descriptor) ==
  { i \in 1 .. Len(methods[c]) :
      /\ MethodKinds[methods[c][i].kind].name = mname
      /\ MethodKinds[methods[c][i].kind].descriptor = descriptor }

\* The first method of that name and descriptor declared by a class of the
\* sequence cs, taking the classes in order.
FirstDeclared(cs, mname, descriptor) ==
  LET I == { i \in 1 .. Len(cs) : Declares(cs[i], mname, descriptor) # {} }
  IN  IF I = {} THEN NoMethod
      ELSE methods[cs[Min(I)]][Min(Declares(cs[Min(I)], mname, descriptor))]

\* c followed by its superclasses, nearest first.
Chain(c) ==
  [i \in 1 .. Cardinality({ k \in 0 .. NumClasses - 1 : SuperPow(c, k) # Nil })
     |-> SuperPow(c, i - 1)]

\* The interfaces of a list and their super-interfaces, depth-first: each
\* interface, then all that it extends, then the next of the list.
RECURSIVE Preorder(_)
Preorder(ifaces) ==
  IF ifaces = << >> THEN << >>
  ELSE <<Head(ifaces)>> \o Preorder(interfaces[Head(ifaces)]) \o Preorder(Tail(ifaces))

\* C5: lookupMethod returns the first match in c's table and then its
\* superclasses in chain order; only when the chain has none, the first match
\* of c's interfaces and their super-interfaces taken depth-first; resolution
\* of a reference to a class fails with NoSuchMethodError exactly when neither has one.
LookupOrder ==
  /\ ret.op = "lookupMethod" =>
       LET inChain == FirstDeclared(Chain(ret.a), ret.n, ret.d)
           inIfaces == FirstDeclared(Preorder(interfaces[ret.a]), ret.n, ret.d)
       IN  ret.val = IF inChain # NoMethod THEN inChain ELSE inIfaces
  /\ \A r \in Refs :
       LET c == ResolvedClass(r)
       IN  ~IsInterface(c) =>
             ((resolveMethodRef(r).err = "NoSuchMethodError") <=>
                /\ FirstDeclared(Chain(c), RefName(r), RefDescriptor(r)) = NoMethod
                /\ FirstDeclared(Preorder(interfaces[c]), RefName(r), RefDescriptor(r))
                     = NoMethod)

\* Witness of C5: a class with a superclass, no match anywhere in its chain,
\* answered with a method its interface inherits from a super-interface.
LookupOrderWitness ==
  /\ ret.op = "lookupMethod" /\ ret.val # NoMethod
  /\ superClass[ret.a] # Nil
  /\ \A c \in {ret.a} \cup StrictAncestors(ret.a) : Declares(c, ret.n, ret.d) = {}
  /\ ret.val.class \notin { interfaces[ret.a][i] : i \in 1 .. Len(interfaces[ret.a]) }

\* ------------------------------------------ interface lookup (pure calls)
CallLookupMethodInInterface(ifaces, mname, descriptor) ==
  /\ ret' = [op |-> "lookupMethodInInterface", a |-> ifaces, n |-> mname,
             d |-> descriptor,
             val |-> lookupMethodInInterface(ifaces, mname, descriptor)]
  /\ UNCHANGED <<classVars, staticVars, method, thread, walk>>

InitIface ==
  /\ name = ClassNames
  /\ accessFlags = [c \in Classes |-> ACC_PUBLIC + ACC_INTERFACE]
  /\ superClass = [c \in Classes |-> Nil]
  /\ interfaces \in { f \in [Classes -> SeqsNoRep(Classes, MaxIfaces)] :
                        \A c \in Classes : f[c] \in IfaceLists(c, MaxIfaces) }
  /\ methods \in { f \in [Classes -> UNION { MethodTables(c, LookupKinds, MaxMethods)
                                             : c \in Classes }] :
                     \A c \in Classes : f[c] \in MethodTables(c, LookupKinds, MaxMethods) }
  /\ fields = [c \in Classes |-> << >>]
  /\ staticVars = [c \in Classes |-> << >>]
  /\ NoCalls

NextIface ==
  \E l \in SeqsNoRep(Classes, MaxIfaces), n \in MemberNames, d \in Descriptors :
    CallLookupMethodInInterface(l, n, d)

SpecIface == InitIface /\ [][NextIface]_vars

\* The interface i and every interface it extends, directly or not.
RECURSIVE SuperInterfaces(_)
SuperInterfaces(i) ==
  { interfaces[i][k] : k \in 1 .. Len(interfaces[i]) }
    \cup UNION { SuperInterfaces(interfaces[i][k]) : k \in 1 .. Len(interfaces[i]) }

Elems(l) == { l[k] : k \in 1 .. Len(l) }

\* C6 as stated: whenever an interface of the list declares a match and a
\* super-interface that is not of the list declares another, the method
\* returned is one declared by an interface of the list.
DirectDeclarationWins ==
  ret.op = "lookupMethodInInterface" =>
    ((/\ \E i \in Elems(ret.a) : Declares(i, ret.n, ret.d) # {}
      /\ \E i \in Elems(ret.a) : \E j \in SuperInterfaces(i) \ Elems(ret.a) :
           Declares(j, ret.n, ret.d) # {})
       => ret.val.class \in Elems(ret.a))

\* C6 as amended: the first interface of the list that declares or inherits a
\* match decides; when it declares one itself, its own first match is
\* returned, never one of its super-interfaces.
DirectDeclarationWinsInFirstSubtree ==
  ret.op = "lookupMethodInInterface" =>
    \A k \in 1 .. Len(ret.a) :
      (/\ Declares(ret.a[k], ret.n, ret.d) # {}
       /\ \A h \in 1 .. (k - 1) :
            \A j \in {ret.a[h]} \cup SuperInterfaces(ret.a[h]) :
              Declares(j, ret.n, ret.d) = {})
        => ret.val = methods[ret.a[k]][Min(Declares(ret.a[k], ret.n, ret.d))]

\* Witness of C6: the second interface of a list answers with its own method
\* although its super-interface declares a match too.
DirectDeclarationWitness ==
  /\ ret.op = "lookupMethodInInterface" /\ Len(ret.a) = 2
  /\ ret.val # NoMethod /\ ret.val.class = ret.a[2]
  /\ \E j \in SuperInterfaces(ret.a[2]) : Declares(j, ret.n, ret.d) # {}

\* ------------------------------------------------------------ static fields
\* The fields a class file can declare: name, descriptor, access flags.
FieldKinds ==
  << [name |-> "out", descriptor |-> "Ljava/io/PrintStream;", accessFlags |-> ACC_PUBLIC + ACC_STATIC],
     [name |-> "in", descriptor |-> "Ljava/io/InputStream;", accessFlags |-> ACC_PUBLIC + ACC_STATIC],
     [name |-> "out", descriptor |-> "Ljava/io/PrintStream;", accessFlags |-> ACC_PUBLIC] >>

\* A *Field is identified by the class that declares it and its kind.
NoField == [class |-> Nil, kind |-> 0]
FieldIsStatic(f) == HasFlag(FieldKinds[f.kind].accessFlags, ACC_STATIC)

\* The field tables class c can be constructed with: a class file declares
\* at most one field of a name and descriptor.
FieldTables(c, n) ==
  { [i \in 1 .. Len(s) |-> [class |-> c, kind |-> s[i]]]
    : s \in { q \in SeqsNoRep(1 .. Len(FieldKinds), n) :
                \A i, j \in 1 .. Len(q) :
                  i # j => \/ FieldKinds[q[i]].name # FieldKinds[q[j]].name
                           \/ FieldKinds[q[i]].descriptor # FieldKinds[q[j]].descriptor } }

\* The (name, descriptor) pairs static variables are asked for by.
StaticKeys == {1, 2}

\* Field.slotId of a static field: the loader numbers the static fields of a
\* class from 0, in table order.
SlotId(f) ==
  LET table == fields[f.class]
      at == CHOOSE i \in 1 .. Len(table) : table[i] = f
  IN  Cardinality({ j \in 1 .. (at - 1) : FieldIsStatic(table[j]) })

\* Class.staticSlotCount: the length of staticVars.
StaticSlotCount(table) ==
  Cardinality({ j \in 1 .. Len(table) : FieldIsStatic(table[j]) })

RECURSIVE getField(_, _, _, _)
getField(c, fname, descriptor, isStatic) ==
  IF c = Nil THEN NoField
  ELSE LET I == { i \in 1 .. Len(fields[c]) :
                    /\ FieldIsStatic(fields[c][i]) = isStatic
                    /\ FieldKinds[fields[c][i].kind].name = fname
                    /\ FieldKinds[fields[c][i].kind].descriptor = descriptor }
       IN  IF I # {} THEN fields[c][Min(I)]
           ELSE getField(superClass[c], fname, descriptor, isStatic)

SetRefVar(self, fname, descriptor, ref) ==
  LET field == getField(self, fname, descriptor, TRUE)
  IN  /\ IF field = NoField
         THEN /\ ret' = [op |-> "SetRefVar", a |-> self, n |-> fname, d |-> descriptor,
                         ref |-> ref, err |-> "nil pointer dereference"]
              /\ staticVars' = staticVars
         ELSE IF SlotId(field) >= Len(staticVars[self])
         THEN /\ ret' = [op |-> "SetRefVar", a |-> self, n |-> fname, d |-> descriptor,
                         ref |-> ref, err |-> "index out of range"]
              /\ staticVars' = staticVars
         ELSE /\ ret' = [op |-> "SetRefVar", a |-> self, n |-> fname, d |-> descriptor,
                         ref |-> ref, err |-> ""]
              /\ staticVars' = [staticVars EXCEPT ![self][SlotId(field) + 1] = ref]
      /\ UNCHANGED <<classVars, method, thread, walk>>

GetRefVar(self, fname, descriptor) ==
  LET field == getField(self, fname, descriptor, TRUE)
  IN  /\ ret' = IF field = NoField
                THEN [op |-> "GetRefVar", a |-> self, n |-> fname, d |-> descriptor,
                      err |-> "nil pointer dereference", val |-> Nil]
                ELSE IF SlotId(field) >= Len(staticVars[self])
                THEN [op |-> "GetRefVar", a |-> self, n |-> fname, d |-> descriptor,
                      err |-> "index out of range", val |-> Nil]
                ELSE [op |-> "GetRefVar", a |-> self, n |-> fname, d |-> descriptor,
                      err |-> "", val |-> staticVars[self][SlotId(field) + 1]]
      /\ UNCHANGED <<classVars, staticVars, method, thread, walk>>

InitStatic ==
  /\ name = ClassNames
  /\ accessFlags = [c \in Classes |-> ACC_PUBLIC]
  /\ superClass \in { f \in [Classes -> Classes \cup {Nil}] :
                        \A c \in Classes : f[c] \in SuperChoices(c) }
  /\ interfaces = [c \in Classes |-> << >>]
  /\ methods = [c \in Classes |-> << >>]
  /\ fields \in { f \in [Classes -> UNION { FieldTables(c, MaxFields) : c \in Classes }] :
                    \A c \in Classes : f[c] \in FieldTables(c, MaxFields) }
  /\ staticVars = [c \in Classes |-> [i \in 1 .. StaticSlotCount(fields[c]) |-> Nil]]
  /\ NoCalls

NextStatic ==
  \/ \E c \in Classes, k \in StaticKeys, o \in Objects \cup {Nil} :
       SetRefVar(c, FieldKinds[k].name, FieldKinds[k].descriptor, o)
  \/ \E c \in Classes, k \in StaticKeys :
       GetRefVar(c, FieldKinds[k].name, FieldKinds[k].descriptor)

SpecStatic == InitStatic /\ [][NextStatic]_vars

\* C7: C.SetRefVar(name, descriptor, ref), for a static field f found in C or
\* in an ancestor of C, stores ref in slot f.slotId of the static storage of
\* the class that declares f, and GetRefVar on that class then returns ref.
StaticWriteReachesDeclaringClass ==
  ret.op = "SetRefVar" =>
    LET f == getField(ret.a, ret.n, ret.d, TRUE)
    IN  f # NoField =>
          /\ ret.err = ""
          /\ staticVars[f.class][SlotId(f) + 1] = ret.ref

\* --------------------------------------------- resolution, concurrent callers
\* ResolvedMethod run by several callers, one statement at a time: the read
\* of self.method, the resolution up to its access check, the write of
\* self.method, and the read of self.method for the return.
TCall(t, r) ==
  /\ thread[t].pc = "idle"
  /\ thread' = [thread EXCEPT ![t] = [pc |-> "check", r |-> r]]
  /\ UNCHANGED <<classVars, staticVars, method, ret, walk>>

TCheck(t) ==
  /\ thread[t].pc = "check"
  /\ thread' = [thread EXCEPT ![t].pc =
                  IF method[thread[t].r] = NoMethod THEN "resolve" ELSE "return"]
  /\ UNCHANGED <<classVars, staticVars, method, ret, walk>>

TResolve(t) ==
  /\ thread[t].pc = "resolve"
  /\ LET o == resolveMethodRef(thread[t].r)
     IN  thread' = [thread EXCEPT ![t] =
                      IF o.err = ""
                      THEN [pc |-> "write", r |-> thread[t].r, m |-> o.method]
                      ELSE [pc |-> "panic", r |-> thread[t].r, err |-> o.err]]
  /\ UNCHANGED <<classVars, staticVars, method, ret, walk>>

TWrite(t) ==
  /\ thread[t].pc = "write"
  /\ method' = [method EXCEPT ![thread[t].r] = thread[t].m]
  /\ thread' = [thread EXCEPT ![t] = [pc |-> "return", r |-> thread[t].r]]
  /\ UNCHANGED <<classVars, staticVars, ret, walk>>

TReturn(t) ==
  /\ thread[t].pc = "return"
  /\ thread' = [thread EXCEPT ![t] =
                  [pc |-> "done", r |-> thread[t].r, val |-> method[thread[t].r]]]
  /\ UNCHANGED <<classVars, staticVars, method, ret, walk>>

InitConc ==
  /\ name = ClassNames
  /\ accessFlags = [c \in Classes |-> ACC_PUBLIC]
  /\ NoLinks
  /\ methods \in { f \in [Classes -> UNION { MethodTables(c, ResolveKinds, 1)
                                             : c \in Classes }] :
                     \A c \in Classes : f[c] \in MethodTables(c, ResolveKinds, 1) }
  /\ fields = [c \in Classes |-> << >>]
  /\ staticVars = [c \in Classes |-> << >>]
  /\ NoCalls

NextConc ==
  \/ \E t \in Threads, r \in Refs : TCall(t, r)
  \/ \E t \in Threads : TCheck(t)
  \/ \E t \in Threads : TResolve(t)
  \/ \E t \in Threads : TWrite(t)
  \/ \E t \in Threads : TReturn(t)
  \/ \E c \in Classes : \E t \in MethodTables(c, ResolveKinds, 1) : SetMethods(c, t)

SpecConc == InitConc /\ [][NextConc]_vars

\* C9: callers that run ResolvedMethod on one reference with their steps
\* interleaved all return the same Method, and a cached method is never
\* overwritten with a different one.
FirstWriterWins ==
  /\ \A t, u \in Threads :
       (thread[t].pc = "done" /\ thread[u].pc = "done" /\ thread[t].r = thread[u].r)
         => thread[t].val = thread[u].val
  /\ \A t \in Threads :
       (thread[t].pc = "write" /\ method[thread[t].r] # NoMethod)
         => thread[t].m = method[thread[t].r]

\* ------------------------------------------------- the loops, step by step
\* The loop of IsSubClassOf and the loop of LookupMethodInClass (the loop of
\* getMethod and getField too), one iteration at a time, over any superClass
\* links at all.  walk.turn is the parity of the iterations executed: an
\* iteration that comes back to the class it left is a step, not a pause.
StartIsSubClassOf(self, other) ==
  /\ walk.pc = "idle"
  /\ walk' = [pc |-> "loop", op |-> "IsSubClassOf", c |-> superClass[self],
              other |-> other, turn |-> 0]
  /\ UNCHANGED <<classVars, staticVars, method, ret, thread>>

StepIsSubClassOf ==
  /\ walk.pc = "loop" /\ walk.op = "IsSubClassOf"
  /\ walk' = IF walk.c = Nil THEN [pc |-> "done", op |-> walk.op, val |-> FALSE]
             ELSE IF walk.c = walk.other THEN [pc |-> "done", op |-> walk.op, val |-> TRUE]
             ELSE [walk EXCEPT !.c = superClass[walk.c], !.turn = 1 - @]
  /\ UNCHANGED <<classVars, staticVars, method, ret, thread>>

StartLookupMethodInClass(class, mname, descriptor) ==
  /\ walk.pc = "idle"
  /\ walk' = [pc |-> "loop", op |-> "LookupMethodInClass", c |-> class,
              n |-> mname, d |-> descriptor, turn |-> 0]
  /\ UNCHANGED <<classVars, staticVars, method, ret, thread>>

StepLookupMethodInClass ==
  /\ walk.pc = "loop" /\ walk.op = "LookupMethodInClass"
  /\ walk' = IF walk.c = Nil THEN [pc |-> "done", op |-> walk.op, val |-> NoMethod]
             ELSE IF FirstMatch(methods[walk.c], walk.n, walk.d) # NoMethod
             THEN [pc |-> "done", op |-> walk.op,
                   val |-> FirstMatch(methods[walk.c], walk.n, walk.d)]
             ELSE [walk EXCEPT !.c = superClass[walk.c], !.turn = 1 - @]
  /\ UNCHANGED <<classVars, staticVars, method, ret, thread>>

WalkReturn ==
  /\ walk.pc = "done"
  /\ walk' = [pc |-> "idle"]
  /\ UNCHANGED <<classVars, staticVars, method, ret, thread>>

InitWalk ==
  /\ name = ClassNames
  /\ accessFlags = [c \in Classes |-> ACC_PUBLIC]
  /\ superClass \in [Classes -> Classes \cup {Nil}]
  /\ interfaces = [c \in Classes |-> << >>]
  /\ methods \in { f \in [Classes -> UNION { MethodTables(c, {1}, 1) : c \in Classes }] :
                     \A c \in Classes : f[c] \in MethodTables(c, {1}, 1) }
  /\ fields = [c \in Classes |-> << >>]
  /\ staticVars = [c \in Classes |-> << >>]
  /\ NoCalls

NextWalk ==
  \/ \E c, d \in Classes : StartIsSubClassOf(c, d)
  \/ StepIsSubClassOf
  \/ \E c \in Classes : StartLookupMethodInClass(c, "sayHello", "()V")
  \/ StepLookupMethodInClass
  \/ WalkReturn

\* A loop that has started keeps executing its iterations.
SpecWalk ==
  /\ InitWalk
  /\ [][NextWalk]_vars
  /\ WF_vars(StepIsSubClassOf)
  /\ WF_vars(StepLookupMethodInClass)

\* C10: whatever the superClass links, cyclic ones included, a started walk
\* over them comes to an end, with a result or a not-found result.
WalksTerminate == (walk.pc = "loop") ~> (walk.pc = "done")

====
